---- MODULE Spec2Model ----
(***************************************************************************)
(* openspec-stack-init: the setup script src/index.js as a state machine.  *)
(*                                                                         *)
(* Strings (paths, file contents, command lines) are sequences of text     *)
(* chunks; "/" , "\\" and "." are chunks of their own, so that splitting,  *)
(* resolving, prefix tests and substring tests are computed the way the    *)
(* script computes them.  The platform modelled is POSIX (path.sep = "/"). *)
(***************************************************************************)
EXTENDS Integers, Sequences, FiniteSets, TLC

VARIABLES
    TARGET_DIR,   \* resolved target root (index.js:42)
    DRY_RUN,      \* simulation flag of the current process (index.js:40)
    avail,        \* tools found in PATH (what hasCmd answers)
    skillSrcOk,   \* whether the bundled skill directory exists (index.js:370)
    rootWritable, \* whether the process may write into TARGET_DIR
    fs,           \* the file system: path -> [kind, content]
    fs0,          \* the file system when the current process started
    fsInit,       \* the file system before the first process
    pc,           \* position of the current process in the script
    exitCode,     \* -1 while running, else the process exit code
    trace,        \* file-system calls and command executions of this process
    outcome,      \* disposition of every step the process has finished
    prev,         \* dispositions and mode of the previous process, if any
    summary,      \* the "What was done" lines printed by the summary
    faults,       \* environment faults met so far (bounded by MaxFaults)
    runs,         \* processes started so far
    filePath,     \* argument of a direct writeIfMissing call
    wres,         \* what a direct call of a utility did
    call          \* a direct call of run or gitignoreAdd: its arguments

vars == <<TARGET_DIR, fsInit, DRY_RUN, avail, skillSrcOk, rootWritable, fs, fs0, pc,
          exitCode, trace, outcome, prev, summary, faults, runs, filePath, wres, call>>

(***************************************************************************)
(* Bounds.                                                                 *)
(***************************************************************************)
\* departures from the nominal environment over a behaviour: tools missing
\* from PATH, a missing bundled skill, commands exiting non-zero, fs calls
\* throwing
MaxFaults == 2
\* chunks in the path given to a direct writeIfMissing call
MaxPathLen == 4
\* times the script is started on the same directory
MaxRuns == 2
\* chunks in the content of .gitignore given to a direct gitignoreAdd call
MaxTextLen == 4

(***************************************************************************)
(* Strings and paths.                                                      *)
(***************************************************************************)
sep == "/"

StartsWith(s, p) == Len(p) <= Len(s) /\ SubSeq(s, 1, Len(p)) = p

\* String.prototype.includes: p occurs in s as a contiguous run.
Includes(s, p) ==
    \E i \in 0..(Len(s) - Len(p)) : SubSeq(s, i + 1, i + Len(p)) = p

\* Number of places where p occurs in s.
Occurrences(s, p) ==
    Cardinality({i \in 0..(Len(s) - Len(p)) : SubSeq(s, i + 1, i + Len(p)) = p})

RECURSIVE SplitOn(_, _, _, _, _)
\* s.split(re) where re matches one or more chunks of seps: the pieces
\* between the runs, empty first/last pieces kept as split() keeps them.
SplitOn(s, seps, i, cur, acc) ==
    IF i > Len(s) THEN Append(acc, cur)
    ELSE IF s[i] \in seps
         THEN IF i > 1 /\ s[i - 1] \in seps
              THEN SplitOn(s, seps, i + 1, cur, acc)
              ELSE SplitOn(s, seps, i + 1, <<>>, Append(acc, cur))
         ELSE SplitOn(s, seps, i + 1, Append(cur, s[i]), acc)

RECURSIVE JoinWith(_, _)
JoinWith(parts, glue) ==
    IF parts = <<>> THEN <<>>
    ELSE IF Len(parts) = 1 THEN parts[1]
    ELSE parts[1] \o <<glue>> \o JoinWith(Tail(parts), glue)

\* filePath.split(/[/\\]+/).join(sep)
NormalizeSeparators(p) == JoinWith(SplitOn(p, {"/", "\\"}, 1, <<>>, <<>>), sep)

RECURSIVE NormalizeSegments(_, _)
\* path.resolve's normalisation: "" and "." dropped, ".." pops (never above "/").
NormalizeSegments(segs, acc) ==
    IF segs = <<>> THEN acc
    ELSE LET s == Head(segs) IN
         IF s = <<>> \/ s = <<".">> THEN NormalizeSegments(Tail(segs), acc)
         ELSE IF s = <<".", ".">>
              THEN NormalizeSegments(Tail(segs),
                       IF acc = <<>> THEN acc ELSE SubSeq(acc, 1, Len(acc) - 1))
              ELSE NormalizeSegments(Tail(segs), Append(acc, s))

RECURSIVE PathOf(_)
PathOf(segs) ==
    IF segs = <<>> THEN <<>> ELSE <<sep>> \o Head(segs) \o PathOf(Tail(segs))

AbsPath(segs) == IF segs = <<>> THEN <<sep>> ELSE PathOf(segs)

Segments(p) == NormalizeSegments(SplitOn(p, {sep}, 1, <<>>, <<>>), <<>>)

\* path.resolve(base, p) for an absolute base: an absolute p replaces the
\* base, an empty p is ignored, the result is normalised.
Resolve(base, p) ==
    IF p = <<>> THEN AbsPath(Segments(base))
    ELSE IF p[1] = sep THEN AbsPath(Segments(p))
    ELSE AbsPath(Segments(base \o <<sep>> \o p))

\* path.join(base, ...names) for plain names.
Join(base, names) == AbsPath(Segments(base) \o names)

\* path.dirname of a resolved path.
Dirname(full) ==
    LET segs == Segments(full) IN
    IF segs = <<>> THEN <<sep>> ELSE AbsPath(SubSeq(segs, 1, Len(segs) - 1))

\* path.basename of a resolved path.
Basename(full) ==
    LET segs == Segments(full) IN
    IF segs = <<>> THEN <<>> ELSE segs[Len(segs)]

(***************************************************************************)
(* File system.                                                            *)
(***************************************************************************)
Dir == [kind |-> "dir", content |-> <<>>]
File(text) == [kind |-> "file", content |-> text]

\* fs.existsSync
Exists(f, p) == p \in DOMAIN f

\* the directories from "/" down to p itself
SelfAndAncestors(p) ==
    LET segs == Segments(p) IN {AbsPath(SubSeq(segs, 1, k)) : k \in 0..Len(segs)}

\* fs.mkdirSync(p, {recursive: true}) cannot succeed through a regular file.
MkdirBlocked(f, p) ==
    \E a \in SelfAndAncestors(p) : a \in DOMAIN f /\ f[a].kind = "file"

Mkdirp(f, p) ==
    [q \in DOMAIN f \cup SelfAndAncestors(p) |->
        IF q \in DOMAIN f THEN f[q] ELSE Dir]

\* fs.writeFileSync: creates or truncates.
WriteFile(f, p, text) ==
    [q \in DOMAIN f \cup {p} |-> IF q = p THEN File(text) ELSE f[q]]

\* fs.appendFileSync
AppendFile(f, p, text) ==
    [q \in DOMAIN f \cup {p} |->
        IF q = p THEN File((IF p \in DOMAIN f THEN f[p].content ELSE <<>>) \o text)
        ELSE f[q]]

\* fs.unlinkSync
Unlink(f, p) == [q \in DOMAIN f \ {p} |-> f[q]]

Ev(op, arg) == [op |-> op, arg |-> arg]

MutatingOps == {"writeFileSync", "unlinkSync", "mkdirSync", "appendFileSync", "cpSync"}
(***************************************************************************)
(* Utilities of the script.                                                *)
(***************************************************************************)
\* PathEscapes with the separator left out of the prefix test.
PathEscapesNoSep(full, normalizedTarget) ==
    ~StartsWith(full, normalizedTarget) /\ full # normalizedTarget

\* The security test of writeIfMissing (index.js:103): TRUE when the
\* resolved path is refused.
PathEscapes(full, normalizedTarget) ==
    ~StartsWith(full, normalizedTarget \o <<sep>>) /\ full # normalizedTarget

\* writeIfMissing without its existsSync test: an existing target is
\* written like a missing one.
writeIfMissingOverwrites(f, fp, content, fault) ==
    LET full == Resolve(TARGET_DIR, NormalizeSeparators(fp))
        parentDir == Dirname(full)
    IN  IF PathEscapes(full, Resolve(TARGET_DIR, <<>>))
        THEN [fs |-> f, events |-> <<>>, result |-> "exit", faulted |-> FALSE]
        ELSE IF DRY_RUN
        THEN [fs |-> f, events |-> <<>>, result |-> "would-create",
              faulted |-> FALSE]
        ELSE IF MkdirBlocked(f, parentDir) \/ fault # "none"
        THEN [fs |-> f, events |-> <<Ev("mkdirSync", parentDir)>>,
              result |-> "exit", faulted |-> ~MkdirBlocked(f, parentDir)]
        ELSE [fs |-> WriteFile(Mkdirp(f, parentDir), full, content),
              events |-> <<Ev("mkdirSync", parentDir), Ev("writeFileSync", full)>>,
              result |-> "created", faulted |-> FALSE]

\* writeIfMissing whose catch blocks log the error and return instead of
\* ending the process.
writeIfMissingContinues(f, fp, content, fault) ==
    LET full == Resolve(TARGET_DIR, NormalizeSeparators(fp))
        parentDir == Dirname(full)
        made == Mkdirp(f, parentDir)
    IN  IF PathEscapes(full, Resolve(TARGET_DIR, <<>>))
        THEN [fs |-> f, events |-> <<>>, result |-> "exit", faulted |-> FALSE]
        ELSE IF Exists(f, full)
        THEN [fs |-> f, events |-> <<Ev("existsSync", full)>>,
              result |-> "skipped-exists", faulted |-> FALSE]
        ELSE IF DRY_RUN
        THEN [fs |-> f, events |-> <<Ev("existsSync", full)>>,
              result |-> "would-create", faulted |-> FALSE]
        ELSE IF MkdirBlocked(f, parentDir) \/ fault = "mkdir"
        THEN [fs |-> f,
              events |-> <<Ev("existsSync", full), Ev("mkdirSync", parentDir),
                           Ev("writeFileSync", full)>>,
              result |-> "created", faulted |-> ~MkdirBlocked(f, parentDir)]
        ELSE IF fault = "write"
        THEN [fs |-> made,
              events |-> <<Ev("existsSync", full), Ev("mkdirSync", parentDir),
                           Ev("writeFileSync", full)>>,
              result |-> "created", faulted |-> TRUE]
        ELSE [fs |-> WriteFile(made, full, content),
              events |-> <<Ev("existsSync", full), Ev("mkdirSync", parentDir),
                           Ev("writeFileSync", full)>>,
              result |-> "created", faulted |-> FALSE]

\* writeIfMissing with the simulation branch placed first, before the
\* security test and the existsSync test.
writeIfMissingSimulatesFirst(f, fp, content, fault) ==
    LET full == Resolve(TARGET_DIR, NormalizeSeparators(fp))
        parentDir == Dirname(full)
        made == Mkdirp(f, parentDir)
    IN  IF DRY_RUN
        THEN [fs |-> f, events |-> <<>>, result |-> "would-create",
              faulted |-> FALSE]
        ELSE IF PathEscapes(full, Resolve(TARGET_DIR, <<>>))
        THEN [fs |-> f, events |-> <<>>, result |-> "exit", faulted |-> FALSE]
        ELSE IF Exists(f, full)
        THEN [fs |-> f, events |-> <<Ev("existsSync", full)>>,
              result |-> "skipped-exists", faulted |-> FALSE]
        ELSE IF MkdirBlocked(f, parentDir) \/ fault = "mkdir"
        THEN [fs |-> f,
              events |-> <<Ev("existsSync", full), Ev("mkdirSync", parentDir)>>,
              result |-> "exit", faulted |-> ~MkdirBlocked(f, parentDir)]
        ELSE IF fault = "write"
        THEN [fs |-> made,
              events |-> <<Ev("existsSync", full), Ev("mkdirSync", parentDir),
                           Ev("writeFileSync", full)>>,
              result |-> "exit", faulted |-> TRUE]
        ELSE [fs |-> WriteFile(made, full, content),
              events |-> <<Ev("existsSync", full), Ev("mkdirSync", parentDir),
                           Ev("writeFileSync", full)>>,
              result |-> "created", faulted |-> FALSE]

\* writeIfMissing(filePath, content, description): what the call reads,
\* writes and returns.  fault is what the environment does to the call's
\* mkdirSync / writeFileSync: "none", "mkdir" (mkdirSync throws) or "write"
\* (writeFileSync throws).
writeIfMissing(f, fp, content, fault) ==
    LET normalizedPath == NormalizeSeparators(fp)
        full == Resolve(TARGET_DIR, normalizedPath)
        normalizedTarget == Resolve(TARGET_DIR, <<>>)
        parentDir == Dirname(full)
        made == Mkdirp(f, parentDir)
    IN  IF PathEscapes(full, normalizedTarget)
        THEN [fs |-> f, events |-> <<>>, result |-> "exit", faulted |-> FALSE]
        ELSE IF Exists(f, full)
        THEN [fs |-> f, events |-> <<Ev("existsSync", full)>>,
              result |-> "skipped-exists", faulted |-> FALSE]
        ELSE IF DRY_RUN
        THEN [fs |-> f, events |-> <<Ev("existsSync", full)>>,
              result |-> "would-create", faulted |-> FALSE]
        ELSE IF MkdirBlocked(f, parentDir) \/ fault = "mkdir"
        THEN [fs |-> f,
              events |-> <<Ev("existsSync", full), Ev("mkdirSync", parentDir)>>,
              result |-> "exit", faulted |-> ~MkdirBlocked(f, parentDir)]
        ELSE IF fault = "write"
        THEN [fs |-> made,
              events |-> <<Ev("existsSync", full), Ev("mkdirSync", parentDir),
                           Ev("writeFileSync", full)>>,
              result |-> "exit", faulted |-> TRUE]
        ELSE [fs |-> WriteFile(made, full, content),
              events |-> <<Ev("existsSync", full), Ev("mkdirSync", parentDir),
                           Ev("writeFileSync", full)>>,
              result |-> "created", faulted |-> FALSE]

WriteFaults == {"none", "mkdir", "write"}

\* What the environment does with a command: it exits with a status
\* (errText is what it wrote to stderr), it is killed by a signal, or the
\* shell cannot be spawned.
ExecOk == [kind |-> "exit", status |-> 0, errText |-> <<>>]
ExecFail == [kind |-> "exit", status |-> 1, errText |-> <<" ", "boom", "\n">>]
ExecOutcomes ==
    { ExecOk, ExecFail,
      [kind |-> "exit", status |-> 127, errText |-> <<>>],
      [kind |-> "signal", status |-> 0, errText |-> <<"killed">>],
      [kind |-> "spawn", status |-> 0, errText |-> <<>>] }
Exec(ok) == IF ok THEN ExecOk ELSE ExecFail

\* the option sets the script passes to run
NoOpts == [silent |-> FALSE]
SilentOpts == [silent |-> TRUE]

Whitespace == {" ", "\n"}
RECURSIVE TrimStart(_)
TrimStart(s) ==
    IF s # <<>> /\ Head(s) \in Whitespace THEN TrimStart(Tail(s)) ELSE s
RECURSIVE TrimEnd(_)
TrimEnd(s) ==
    IF s # <<>> /\ s[Len(s)] \in Whitespace
    THEN TrimEnd(SubSeq(s, 1, Len(s) - 1)) ELSE s
\* String.prototype.trim
Trim(s) == TrimEnd(TrimStart(s))

\* execSync(cmd, {stdio}) of run: whether it threw and the error object e.
\* e.status is the exit status (0 stands for the falsy null/undefined of a
\* signal or a spawn error); e.stderr is a buffer only when stdio is "pipe"
\* and a process was started.
execSync(cmd, piped, env) ==
    [threw |-> env.kind # "exit" \/ env.status # 0,
     status |-> IF env.kind = "exit" THEN env.status ELSE 0,
     stderr |-> [set |-> piped /\ env.kind # "spawn",
                 text |-> IF piped /\ env.kind # "spawn" THEN env.errText
                          ELSE <<>>],
     message |-> IF env.kind = "spawn" THEN <<"spawnSync ENOENT">>
                 ELSE <<"Command failed: ", cmd>>]

\* run(cmd, opts): in simulation nothing is executed and the answer is true;
\* otherwise execSync runs the command, a throw is caught and answered with
\* false, and the diagnostic is logged unless opts.silent.  The last event
\* is the value returned.
run(cmd, opts, env) ==
    IF DRY_RUN
    THEN [ok |-> TRUE,
          events |-> <<Ev("log.info", <<"[DRY RUN] ", cmd>>),
                       Ev("return", <<cmd, "true">>)>>]
    ELSE LET e == execSync(cmd, opts.silent, env)
             errorMsg == IF opts.silent /\ e.stderr.set THEN Trim(e.stderr.text)
                         ELSE e.message
             logs == IF opts.silent THEN <<>>
                     ELSE <<Ev("log.error", <<"Command failed: ", cmd>>)>>
                          \o (IF errorMsg # <<>>
                              THEN <<Ev("log.error", <<"Error: ">> \o errorMsg)>>
                              ELSE <<>>)
                          \o (IF e.status # 0
                              THEN <<Ev("log.error",
                                        <<"Exit code: ", ToString(e.status)>>)>>
                              ELSE <<>>)
         IN  IF ~e.threw
             THEN [ok |-> TRUE,
                   events |-> <<Ev("execSync", <<cmd>>),
                                Ev("return", <<cmd, "true">>)>>]
             ELSE [ok |-> FALSE,
                   events |-> <<Ev("execSync", <<cmd>>)>> \o logs
                              \o <<Ev("return", <<cmd, "false">>)>>]

\* hasCmd(cmd): execSync of the shell's lookup ("command -v cmd").
hasCmd(cmd) ==
    [ok |-> cmd \in avail, events |-> <<Ev("execSync", <<"command -v ", cmd>>)>>]

GITIGNORE == <<".", "gitignore">>

\* the text gitignoreAdd appends: `\n# ${comment}\n${entry}\n`
IgnoreBlock(entry, comment) ==
    <<"\n", "# ">> \o comment \o <<"\n">> \o entry \o <<"\n">>

\* gitignoreAdd without the content.includes(entry) test.
gitignoreAddAlways(f, entry, comment) ==
    LET gitignorePath == Join(TARGET_DIR, <<GITIGNORE>>)
    IN  IF DRY_RUN
        THEN [fs |-> f,
              events |-> <<Ev("existsSync", gitignorePath),
                           Ev("log.info",
                              <<"[DRY RUN] Would add to .gitignore: ">> \o entry)>>,
              result |-> "would-add"]
        ELSE [fs |-> AppendFile(f, gitignorePath, IgnoreBlock(entry, comment)),
              events |-> <<Ev("existsSync", gitignorePath),
                           Ev("appendFileSync", gitignorePath),
                           Ev("log.info", <<"  .gitignore <- ">> \o entry)>>,
              result |-> "added"]

\* gitignoreAdd appending the comment and the entry without the newline
\* in front of them.
gitignoreAddNoSeparator(f, entry, comment) ==
    LET gitignorePath == Join(TARGET_DIR, <<GITIGNORE>>)
        e1 == <<Ev("existsSync", gitignorePath)>>
        create == ~Exists(f, gitignorePath) /\ ~DRY_RUN
        f1 == IF create THEN WriteFile(f, gitignorePath, <<>>) ELSE f
        e2 == IF create THEN <<Ev("writeFileSync", gitignorePath)>> ELSE <<>>
        e3 == <<Ev("existsSync", gitignorePath)>>
              \o (IF Exists(f1, gitignorePath)
                  THEN <<Ev("readFileSync", gitignorePath)>> ELSE <<>>)
        content == IF Exists(f1, gitignorePath) THEN f1[gitignorePath].content
                   ELSE <<>>
    IN  IF Exists(f1, gitignorePath) /\ f1[gitignorePath].kind = "dir"
        THEN [fs |-> f1, events |-> e1 \o e2 \o e3, result |-> "throw"]
        ELSE IF Includes(content, entry)
        THEN [fs |-> f1, events |-> e1 \o e2 \o e3, result |-> "present"]
        ELSE IF DRY_RUN
        THEN [fs |-> f1,
              events |-> e1 \o e2 \o e3
                         \o <<Ev("log.info",
                                 <<"[DRY RUN] Would add to .gitignore: ">> \o entry)>>,
              result |-> "would-add"]
        ELSE [fs |-> AppendFile(f1, gitignorePath,
                                Tail(IgnoreBlock(entry, comment))),
              events |-> e1 \o e2 \o e3
                         \o <<Ev("appendFileSync", gitignorePath),
                              Ev("log.info", <<"  .gitignore <- ">> \o entry)>>,
              result |-> "added"]

\* gitignoreAdd creating the missing file in simulation as well.
gitignoreAddCreatesInSimulation(f, entry, comment) ==
    LET gitignorePath == Join(TARGET_DIR, <<GITIGNORE>>)
        e1 == <<Ev("existsSync", gitignorePath)>>
        create == ~Exists(f, gitignorePath)
        f1 == IF create THEN WriteFile(f, gitignorePath, <<>>) ELSE f
        e2 == IF create THEN <<Ev("writeFileSync", gitignorePath)>> ELSE <<>>
        e3 == <<Ev("existsSync", gitignorePath)>>
              \o (IF Exists(f1, gitignorePath)
                  THEN <<Ev("readFileSync", gitignorePath)>> ELSE <<>>)
        content == IF Exists(f1, gitignorePath) THEN f1[gitignorePath].content
                   ELSE <<>>
    IN  IF Exists(f1, gitignorePath) /\ f1[gitignorePath].kind = "dir"
        THEN [fs |-> f1, events |-> e1 \o e2 \o e3, result |-> "throw"]
        ELSE IF Includes(content, entry)
        THEN [fs |-> f1, events |-> e1 \o e2 \o e3, result |-> "present"]
        ELSE IF DRY_RUN
        THEN [fs |-> f1,
              events |-> e1 \o e2 \o e3
                         \o <<Ev("log.info",
                                 <<"[DRY RUN] Would add to .gitignore: ">> \o entry)>>,
              result |-> "would-add"]
        ELSE [fs |-> AppendFile(f1, gitignorePath, IgnoreBlock(entry, comment)),
              events |-> e1 \o e2 \o e3
                         \o <<Ev("appendFileSync", gitignorePath),
                              Ev("log.info", <<"  .gitignore <- ">> \o entry)>>,
              result |-> "added"]

\* gitignoreAdd(entry, comment).  No call is inside a try: readFileSync on
\* a .gitignore that is a directory throws (EISDIR) out of the function.
gitignoreAdd(f, entry, comment) ==
    LET gitignorePath == Join(TARGET_DIR, <<GITIGNORE>>)
        e1 == <<Ev("existsSync", gitignorePath)>>
        create == ~Exists(f, gitignorePath) /\ ~DRY_RUN
        f1 == IF create THEN WriteFile(f, gitignorePath, <<>>) ELSE f
        e2 == IF create THEN <<Ev("writeFileSync", gitignorePath)>> ELSE <<>>
        e3 == <<Ev("existsSync", gitignorePath)>>
              \o (IF Exists(f1, gitignorePath)
                  THEN <<Ev("readFileSync", gitignorePath)>> ELSE <<>>)
        content == IF Exists(f1, gitignorePath) THEN f1[gitignorePath].content
                   ELSE <<>>
    IN  IF Exists(f1, gitignorePath) /\ f1[gitignorePath].kind = "dir"
        THEN [fs |-> f1, events |-> e1 \o e2 \o e3, result |-> "throw"]
        ELSE IF Includes(content, entry)
        THEN [fs |-> f1, events |-> e1 \o e2 \o e3, result |-> "present"]
        ELSE IF DRY_RUN
        THEN [fs |-> f1,
              events |-> e1 \o e2 \o e3
                         \o <<Ev("log.info",
                                 <<"[DRY RUN] Would add to .gitignore: ">> \o entry)>>,
              result |-> "would-add"]
        ELSE [fs |-> AppendFile(f1, gitignorePath, IgnoreBlock(entry, comment)),
              events |-> e1 \o e2 \o e3
                         \o <<Ev("appendFileSync", gitignorePath),
                              Ev("log.info", <<"  .gitignore <- ">> \o entry)>>,
              result |-> "added"]

(***************************************************************************)
(* Names, command lines and texts of the script.                           *)
(***************************************************************************)
Tools == {"openspec", "bd", "claude", "npx"}
DepsOrder == <<"openspec", "bd", "claude", "npx">>

CMD_OPENSPEC_INIT == "openspec init --tools claude --profile core --force"
CMD_OPENSPEC_PROFILE == "openspec config profile expanded"
CMD_OPENSPEC_UPDATE == "openspec update --tools claude --force"
CMD_BD_INIT == "echo N | bd init --quiet"
CMD_BD_SETUP == "bd setup claude"
CMD_MARKETPLACE_ADD == "claude plugin marketplace add thedotmack/claude-mem"
CMD_PLUGIN_INSTALL == "claude plugin install claude-mem"
CMD_SMITHERY ==
    "npx @smithery/cli@latest skill add lucastamoios/openspec-to-beads --agent claude-code"

StepCommands == {CMD_OPENSPEC_INIT, CMD_OPENSPEC_PROFILE, CMD_OPENSPEC_UPDATE,
                 CMD_BD_INIT, CMD_BD_SETUP, CMD_MARKETPLACE_ADD,
                 CMD_PLUGIN_INSTALL, CMD_SMITHERY}

\* the tool a command line starts
ToolOf(cmd) ==
    IF cmd \in {CMD_OPENSPEC_INIT, CMD_OPENSPEC_PROFILE, CMD_OPENSPEC_UPDATE}
    THEN "openspec"
    ELSE IF cmd \in {CMD_BD_INIT, CMD_BD_SETUP} THEN "bd"
    ELSE IF cmd \in {CMD_MARKETPLACE_ADD, CMD_PLUGIN_INSTALL} THEN "claude"
    ELSE "npx"

\* the steps, by the titles log.step announces, in script order
S_DEPS == "Checking required tools"
S_INIT == "OpenSpec - init"
S_CONFIG == "OpenSpec - config.yaml"
S_BEADS == "Beads - init"
S_BEADS_CLAUDE == "Beads - Claude Code integration"
S_CLAUDE_MEM == "claude-mem - plugin install"
S_SKILL_O2B == "Skill - openspec-to-beads"
S_SKILL_MIGRATE == "Skill - /migrate-to-openspec"
S_GITIGNORE == "Updating .gitignore"

Steps == <<S_DEPS, S_INIT, S_CONFIG, S_BEADS, S_BEADS_CLAUDE, S_CLAUDE_MEM,
           S_SKILL_O2B, S_SKILL_MIGRATE, S_GITIGNORE>>

StepSet == {Steps[i] : i \in 1..Len(Steps)}

\* the expanded-profile upgrade inside the OpenSpec init step
W_EXPANDED == "OpenSpec - expanded profile"

OPENSPEC == <<"openspec">>
CONFIG_YAML == <<"config", ".", "yaml">>
CONFIG_REL == <<"openspec", "/", "config", ".", "yaml">>
PROJECT_NAME == Basename(TARGET_DIR)
ConfigTemplate == <<"# OpenSpec Project Config - ">> \o PROJECT_NAME
DefaultConfig == <<"schema: spec-driven (openspec default)">>

BEADS_DIR == <<".", "beads">>
BEADS_JSONL == <<"beads", ".", "jsonl">>
ISSUES_JSONL == <<"issues", ".", "jsonl">>

DOT_CLAUDE == <<".", "claude">>
SKILLS == <<"skills">>
MIGRATE == <<"migrate-to-openspec">>
SKILL_MD == <<"SKILL", ".", "md">>
skillDst == Join(TARGET_DIR, <<DOT_CLAUDE, SKILLS, MIGRATE>>)

BEADS_CACHE == <<".", "beads-cache", "/">>
BEADS_CACHE_COMMENT == <<"Beads local SQLite cache (not needed in git)">>
CLAUDE_MEM == <<".", "claude-mem", "/">>
CLAUDE_MEM_COMMENT == <<"claude-mem", " local session data">>

\* the probe file placed in the system's temporary directory instead
testFileInTmp == <<sep, "tmp", sep, ".", "openspec-test-", "now">>

\* Date.now() of the writability probe's file name
testFile == Join(TARGET_DIR, << <<".", "openspec-test-", "now">> >>)

\* the six lines under "What was done"
SummaryItems == <<"OpenSpec", "openspec/config.yaml", "Beads", "claude-mem",
                  "openspec-to-beads", "/migrate-to-openspec">>
(***************************************************************************)
(* Initial states of the script.                                           *)
(***************************************************************************)
EmptyFs == [q \in {} |-> Dir]
Put(o, k, v) == [x \in DOMAIN o \cup {k} |-> IF x = k THEN v ELSE o[x]]
NoOutcome == [q \in {} |-> "done"]
NoPrev == [ran |-> FALSE, dry |-> FALSE, exit |-> -1, outcome |-> NoOutcome]
NoCall == [fn |-> "none"]

ROOT == <<sep, "r">>
EmptyRoot == Mkdirp(EmptyFs, ROOT)
WithDir(f, names) == Mkdirp(f, Join(ROOT, names))
WithFile(f, names, text) ==
    WriteFile(Mkdirp(f, Dirname(Join(ROOT, names))), Join(ROOT, names), text)

\* the target directories the script is started on
InitialRoots ==
    { EmptyRoot,
      WithDir(EmptyRoot, <<OPENSPEC>>),
      WithFile(EmptyRoot, <<OPENSPEC, CONFIG_YAML>>, <<"user config">>),
      WithDir(EmptyRoot, <<BEADS_DIR>>),
      WithFile(EmptyRoot, <<BEADS_JSONL>>, <<"{}">>),
      WithFile(EmptyRoot, <<ISSUES_JSONL>>, <<"{}">>),
      WithDir(EmptyRoot, <<DOT_CLAUDE, SKILLS, MIGRATE>>),
      WithFile(EmptyRoot, <<GITIGNORE>>, <<"node_modules", "\n">>),
      WithFile(EmptyRoot, <<GITIGNORE>>,
               <<"# ">> \o BEADS_CACHE \o <<" is local", "\n">>),
      WithFile(EmptyRoot, <<GITIGNORE>>,
               <<"tmp", "/">> \o CLAUDE_MEM \o <<"\n">>),
      WithFile(EmptyRoot, <<GITIGNORE>>,
               BEADS_CACHE \o <<"\n">> \o CLAUDE_MEM \o <<"\n">>),
      \* a directory where .gitignore is expected
      WithDir(EmptyRoot, <<GITIGNORE>>),
      \* not valid targets: nothing at the path, a regular file at the path
      Mkdirp(EmptyFs, <<sep>>),
      WriteFile(Mkdirp(EmptyFs, <<sep>>), ROOT, <<"a file">>) }

Missing(av, src) == Cardinality(Tools \ av) + (IF src THEN 0 ELSE 1)

Init ==
    /\ TARGET_DIR = ROOT
    /\ DRY_RUN \in BOOLEAN
    /\ avail \in SUBSET Tools
    /\ skillSrcOk \in BOOLEAN
    /\ Missing(avail, skillSrcOk) <= MaxFaults
    /\ faults = Missing(avail, skillSrcOk)
    /\ rootWritable \in BOOLEAN
    /\ fs \in InitialRoots
    /\ fs0 = fs
    /\ fsInit = fs
    /\ pc = "validate"
    /\ exitCode = -1
    /\ trace = <<>>
    /\ outcome = NoOutcome
    /\ prev = NoPrev
    /\ summary = <<>>
    /\ runs = 1
    /\ filePath = <<>>
    /\ wres = "none"
    /\ call = NoCall

(***************************************************************************)
(* The script, one action per step.                                        *)
(***************************************************************************)
\* a step ends: its disposition is known and the script goes on
Finish(step, status, nextPc, f, evs, nf) ==
    /\ pc' = nextPc
    /\ fs' = f
    /\ trace' = trace \o <<Ev("step", <<step>>)>> \o evs
    /\ outcome' = Put(outcome, step, status)
    /\ faults' = faults + nf
    /\ UNCHANGED <<TARGET_DIR, fsInit, DRY_RUN, avail, skillSrcOk, rootWritable, fs0,
                   exitCode, prev, summary, runs, filePath, wres, call>>

\* process.exit(1)
Fatal(f, evs, msg, nf) ==
    /\ pc' = "done"
    /\ exitCode' = 1
    /\ fs' = f
    /\ trace' = trace \o evs \o <<Ev("exit", <<msg>>)>>
    /\ faults' = faults + nf
    /\ UNCHANGED <<TARGET_DIR, fsInit, DRY_RUN, avail, skillSrcOk, rootWritable, fs0,
                   outcome, prev, summary, runs, filePath, wres, call>>

\* ValidateTarget without the write-permission probe.
ValidateTargetNoProbe ==
    /\ pc = "validate"
    /\ LET e1 == <<Ev("existsSync", TARGET_DIR)>>
           e2 == e1 \o <<Ev("statSync", TARGET_DIR)>>
       IN  IF ~Exists(fs, TARGET_DIR)
           THEN Fatal(fs, e1, "Directory not found", 0)
           ELSE IF fs[TARGET_DIR].kind # "dir"
           THEN Fatal(fs, e2, "Target path is not a directory", 0)
           ELSE /\ pc' = "deps"
                /\ trace' = trace \o e2
                /\ UNCHANGED <<TARGET_DIR, fsInit, DRY_RUN, avail, skillSrcOk,
                               rootWritable, fs, fs0, exitCode, outcome, prev,
                               summary, faults, runs, filePath, wres, call>>

\* index.js:164-190: existence, directory, write permission
ValidateTarget ==
    /\ pc = "validate"
    /\ LET e1 == <<Ev("existsSync", TARGET_DIR)>>
           e2 == e1 \o <<Ev("statSync", TARGET_DIR)>>
           e3 == e2 \o <<Ev("writeFileSync", testFile)>>
           e4 == e3 \o <<Ev("unlinkSync", testFile)>>
       IN  IF ~Exists(fs, TARGET_DIR)
           THEN Fatal(fs, e1, "Directory not found", 0)
           ELSE IF fs[TARGET_DIR].kind # "dir"
           THEN Fatal(fs, e2, "Target path is not a directory", 0)
           ELSE IF ~rootWritable
           THEN Fatal(fs, e3, "No write permission for directory", 0)
           ELSE /\ pc' = "deps"
                /\ fs' = Unlink(WriteFile(fs, testFile, <<>>), testFile)
                /\ trace' = trace \o e4
                /\ UNCHANGED <<TARGET_DIR, fsInit, DRY_RUN, avail, skillSrcOk,
                               rootWritable, fs0, exitCode, outcome, prev,
                               summary, faults, runs, filePath, wres, call>>

RECURSIVE ProbeAll(_)
ProbeAll(cmds) ==
    IF cmds = <<>> THEN <<>> ELSE hasCmd(Head(cmds)).events \o ProbeAll(Tail(cmds))

\* DependencyCheck handing over to the config.yaml step, ahead of the
\* OpenSpec init step.
DependencyCheckThenConfig ==
    /\ pc = "deps"
    /\ Finish(S_DEPS, "done", "configYaml", fs, ProbeAll(DepsOrder), 0)

\* index.js:192-215
DependencyCheck ==
    /\ pc = "deps"
    /\ Finish(S_DEPS, "done", "openspecInit", fs, ProbeAll(DepsOrder), 0)
\* a live command may fail only while the fault budget lasts
MayFail(ok) == ok \/ (~DRY_RUN /\ faults < MaxFaults)
Cost(ok) == IF ~DRY_RUN /\ ~ok THEN 1 ELSE 0

\* What `openspec init` leaves behind (the tool itself is not part of this
\* repository): on success openspec/ and, if makesConfig, its default
\* config.yaml; on failure openspec/ only if leavesDir.
OpenspecInitEffect(f, ok, leavesDir, makesConfig) ==
    IF DRY_RUN THEN f
    ELSE IF ok
    THEN IF makesConfig
         THEN WriteFile(Mkdirp(f, Join(TARGET_DIR, <<OPENSPEC>>)),
                        Join(TARGET_DIR, <<OPENSPEC, CONFIG_YAML>>), DefaultConfig)
         ELSE Mkdirp(f, Join(TARGET_DIR, <<OPENSPEC>>))
    ELSE IF leavesDir THEN Mkdirp(f, Join(TARGET_DIR, <<OPENSPEC>>)) ELSE f

\* OpenSpecInit running `openspec update` whatever `openspec config profile
\* expanded` returned.
OpenSpecInitUpdatesAnyway ==
    /\ pc = "openspecInit"
    /\ LET dir == Join(TARGET_DIR, <<OPENSPEC>>)
           defaultConfig == Join(TARGET_DIR, <<OPENSPEC, CONFIG_YAML>>)
           e1 == <<Ev("existsSync", dir)>>
           probe == hasCmd("openspec")
       IN  IF Exists(fs, dir)
           THEN Finish(S_INIT, "already-satisfied", "configYaml", fs, e1, 0)
           ELSE IF ~probe.ok
           THEN Finish(S_INIT, "skipped-missing-tool", "configYaml", fs,
                       e1 \o probe.events, 0)
           ELSE \E initOk, leavesDir, makesConfig, profileOk, updateOk \in BOOLEAN :
                /\ MayFail(initOk /\ profileOk /\ updateOk)
                /\ initOk => leavesDir
                /\ ~initOk => (makesConfig /\ profileOk /\ updateOk)
                /\ ~profileOk => updateOk
                /\ DRY_RUN => (leavesDir /\ makesConfig)
                /\ LET r1 == run(CMD_OPENSPEC_INIT, NoOpts, Exec(initOk))
                       f1 == OpenspecInitEffect(fs, initOk, leavesDir, makesConfig)
                       e2 == e1 \o probe.events \o r1.events
                   IN  IF ~r1.ok
                       THEN Finish(S_INIT, "failed", "configYaml", f1, e2, 1)
                       ELSE LET had == Exists(f1, defaultConfig)
                                f2 == IF had THEN Unlink(f1, defaultConfig) ELSE f1
                                e3 == e2 \o <<Ev("existsSync", defaultConfig)>>
                                      \o (IF had THEN <<Ev("unlinkSync", defaultConfig)>>
                                          ELSE <<>>)
                                r2 == run(CMD_OPENSPEC_PROFILE, SilentOpts, Exec(profileOk))
                                r3 == run(CMD_OPENSPEC_UPDATE, SilentOpts, Exec(updateOk))
                                expanded == r2.ok /\ r3.ok
                                e4 == e3 \o r2.events \o r3.events
                            IN  /\ pc' = "configYaml"
                                /\ fs' = f2
                                /\ trace' = trace \o <<Ev("step", <<S_INIT>>)>> \o e4
                                /\ outcome' = Put(Put(outcome, S_INIT, "done"),
                                                  W_EXPANDED,
                                                  IF expanded THEN "done" ELSE "failed")
                                /\ faults' = faults + (IF expanded THEN 0 ELSE 1)
                                /\ UNCHANGED <<TARGET_DIR, fsInit, DRY_RUN, avail, skillSrcOk,
                                               rootWritable, fs0, exitCode, prev,
                                               summary, runs, filePath, wres, call>>

\* OpenSpecInit without the removal of the default config.yaml.
OpenSpecInitKeepsDefault ==
    /\ pc = "openspecInit"
    /\ LET dir == Join(TARGET_DIR, <<OPENSPEC>>)
           defaultConfig == Join(TARGET_DIR, <<OPENSPEC, CONFIG_YAML>>)
           e1 == <<Ev("existsSync", dir)>>
           probe == hasCmd("openspec")
       IN  IF Exists(fs, dir)
           THEN Finish(S_INIT, "already-satisfied", "configYaml", fs, e1, 0)
           ELSE IF ~probe.ok
           THEN Finish(S_INIT, "skipped-missing-tool", "configYaml", fs,
                       e1 \o probe.events, 0)
           ELSE \E initOk, leavesDir, makesConfig, profileOk, updateOk \in BOOLEAN :
                /\ MayFail(initOk /\ profileOk /\ updateOk)
                /\ initOk => leavesDir
                /\ ~initOk => (makesConfig /\ profileOk /\ updateOk)
                /\ ~profileOk => updateOk
                /\ DRY_RUN => (leavesDir /\ makesConfig)
                /\ LET r1 == run(CMD_OPENSPEC_INIT, NoOpts, Exec(initOk))
                       f1 == OpenspecInitEffect(fs, initOk, leavesDir, makesConfig)
                       e2 == e1 \o probe.events \o r1.events
                   IN  IF ~r1.ok
                       THEN Finish(S_INIT, "failed", "configYaml", f1, e2, 1)
                       ELSE LET f2 == f1
                                e3 == e2
                                r2 == run(CMD_OPENSPEC_PROFILE, SilentOpts, Exec(profileOk))
                                r3 == run(CMD_OPENSPEC_UPDATE, SilentOpts, Exec(updateOk))
                                expanded == r2.ok /\ r3.ok
                                e4 == e3 \o r2.events
                                      \o (IF r2.ok THEN r3.events ELSE <<>>)
                            IN  /\ pc' = "configYaml"
                                /\ fs' = f2
                                /\ trace' = trace \o <<Ev("step", <<S_INIT>>)>> \o e4
                                /\ outcome' = Put(Put(outcome, S_INIT, "done"),
                                                  W_EXPANDED,
                                                  IF expanded THEN "done" ELSE "failed")
                                /\ faults' = faults + (IF expanded THEN 0 ELSE 1)
                                /\ UNCHANGED <<TARGET_DIR, fsInit, DRY_RUN, avail, skillSrcOk,
                                               rootWritable, fs0, exitCode, prev,
                                               summary, runs, filePath, wres, call>>

\* OpenSpecInit removing openspec/config.yaml also when openspec/ was
\* already there.
OpenSpecInitRemovesExisting ==
    /\ pc = "openspecInit"
    /\ LET dir == Join(TARGET_DIR, <<OPENSPEC>>)
           defaultConfig == Join(TARGET_DIR, <<OPENSPEC, CONFIG_YAML>>)
           e1 == <<Ev("existsSync", dir)>>
           probe == hasCmd("openspec")
       IN  IF Exists(fs, dir)
           THEN Finish(S_INIT, "already-satisfied", "configYaml",
                       IF Exists(fs, defaultConfig)
                       THEN Unlink(fs, defaultConfig) ELSE fs,
                       e1 \o <<Ev("existsSync", defaultConfig)>>
                          \o (IF Exists(fs, defaultConfig)
                              THEN <<Ev("unlinkSync", defaultConfig)>> ELSE <<>>),
                       0)
           ELSE IF ~probe.ok
           THEN Finish(S_INIT, "skipped-missing-tool", "configYaml", fs,
                       e1 \o probe.events, 0)
           ELSE \E initOk, leavesDir, makesConfig, profileOk, updateOk \in BOOLEAN :
                /\ MayFail(initOk /\ profileOk /\ updateOk)
                /\ initOk => leavesDir
                /\ ~initOk => (makesConfig /\ profileOk /\ updateOk)
                /\ ~profileOk => updateOk
                /\ DRY_RUN => (leavesDir /\ makesConfig)
                /\ LET r1 == run(CMD_OPENSPEC_INIT, NoOpts, Exec(initOk))
                       f1 == OpenspecInitEffect(fs, initOk, leavesDir, makesConfig)
                       e2 == e1 \o probe.events \o r1.events
                   IN  IF ~r1.ok
                       THEN Finish(S_INIT, "failed", "configYaml", f1, e2, 1)
                       ELSE LET had == Exists(f1, defaultConfig)
                                f2 == IF had THEN Unlink(f1, defaultConfig) ELSE f1
                                e3 == e2 \o <<Ev("existsSync", defaultConfig)>>
                                      \o (IF had THEN <<Ev("unlinkSync", defaultConfig)>>
                                          ELSE <<>>)
                                r2 == run(CMD_OPENSPEC_PROFILE, SilentOpts, Exec(profileOk))
                                r3 == run(CMD_OPENSPEC_UPDATE, SilentOpts, Exec(updateOk))
                                expanded == r2.ok /\ r3.ok
                                e4 == e3 \o r2.events
                                      \o (IF r2.ok THEN r3.events ELSE <<>>)
                            IN  /\ pc' = "configYaml"
                                /\ fs' = f2
                                /\ trace' = trace \o <<Ev("step", <<S_INIT>>)>> \o e4
                                /\ outcome' = Put(Put(outcome, S_INIT, "done"),
                                                  W_EXPANDED,
                                                  IF expanded THEN "done" ELSE "failed")
                                /\ faults' = faults + (IF expanded THEN 0 ELSE 1)
                                /\ UNCHANGED <<TARGET_DIR, fsInit, DRY_RUN, avail, skillSrcOk,
                                               rootWritable, fs0, exitCode, prev,
                                               summary, runs, filePath, wres, call>>

\* index.js:217-251
OpenSpecInit ==
    /\ pc = "openspecInit"
    /\ LET dir == Join(TARGET_DIR, <<OPENSPEC>>)
           defaultConfig == Join(TARGET_DIR, <<OPENSPEC, CONFIG_YAML>>)
           e1 == <<Ev("existsSync", dir)>>
           probe == hasCmd("openspec")
       IN  IF Exists(fs, dir)
           THEN Finish(S_INIT, "already-satisfied", "configYaml", fs, e1, 0)
           ELSE IF ~probe.ok
           THEN Finish(S_INIT, "skipped-missing-tool", "configYaml", fs,
                       e1 \o probe.events, 0)
           ELSE \E initOk, leavesDir, makesConfig, profileOk, updateOk \in BOOLEAN :
                /\ MayFail(initOk /\ profileOk /\ updateOk)
                /\ initOk => leavesDir
                /\ ~initOk => (makesConfig /\ profileOk /\ updateOk)
                /\ ~profileOk => updateOk
                /\ DRY_RUN => (leavesDir /\ makesConfig)
                /\ LET r1 == run(CMD_OPENSPEC_INIT, NoOpts, Exec(initOk))
                       f1 == OpenspecInitEffect(fs, initOk, leavesDir, makesConfig)
                       e2 == e1 \o probe.events \o r1.events
                   IN  IF ~r1.ok
                       THEN Finish(S_INIT, "failed", "configYaml", f1, e2, 1)
                       ELSE LET had == Exists(f1, defaultConfig)
                                f2 == IF had THEN Unlink(f1, defaultConfig) ELSE f1
                                e3 == e2 \o <<Ev("existsSync", defaultConfig)>>
                                      \o (IF had THEN <<Ev("unlinkSync", defaultConfig)>>
                                          ELSE <<>>)
                                r2 == run(CMD_OPENSPEC_PROFILE, SilentOpts, Exec(profileOk))
                                r3 == run(CMD_OPENSPEC_UPDATE, SilentOpts, Exec(updateOk))
                                expanded == r2.ok /\ r3.ok
                                e4 == e3 \o r2.events
                                      \o (IF r2.ok THEN r3.events ELSE <<>>)
                            IN  /\ pc' = "configYaml"
                                /\ fs' = f2
                                /\ trace' = trace \o <<Ev("step", <<S_INIT>>)>> \o e4
                                /\ outcome' = Put(Put(outcome, S_INIT, "done"),
                                                  W_EXPANDED,
                                                  IF expanded THEN "done" ELSE "failed")
                                /\ faults' = faults + (IF expanded THEN 0 ELSE 1)
                                /\ UNCHANGED <<TARGET_DIR, fsInit, DRY_RUN, avail, skillSrcOk,
                                               rootWritable, fs0, exitCode, prev,
                                               summary, runs, filePath, wres, call>>

\* index.js:253-286
ConfigYaml ==
    /\ pc = "configYaml"
    /\ \E fault \in WriteFaults :
        /\ fault # "none" => (~DRY_RUN /\ faults < MaxFaults)
        /\ LET r == writeIfMissing(fs, CONFIG_REL, ConfigTemplate, fault)
               nf == IF r.faulted THEN 1 ELSE 0
           IN  /\ (fault # "none") => r.faulted
               /\ IF r.result = "exit"
                  THEN Fatal(r.fs, <<Ev("step", <<S_CONFIG>>)>> \o r.events,
                             "writeIfMissing", nf)
                  ELSE Finish(S_CONFIG,
                              IF r.result = "skipped-exists" THEN "already-satisfied"
                              ELSE "done",
                              "beadsInit", r.fs, r.events, nf)

\* What `bd init` leaves behind on success (the tool is not part of this
\* repository): the .beads directory.
BdInitEffect(f, ok) ==
    IF ~DRY_RUN /\ ok THEN Mkdirp(f, Join(TARGET_DIR, <<BEADS_DIR>>)) ELSE f

\* BeadsInit with the tool probe placed before the test for an existing
\* Beads store.
BeadsInitProbesFirst ==
    /\ pc = "beadsInit"
    /\ LET p1 == Join(TARGET_DIR, <<BEADS_DIR>>)
           p2 == Join(TARGET_DIR, <<BEADS_JSONL>>)
           p3 == Join(TARGET_DIR, <<ISSUES_JSONL>>)
           beadsInitialized == Exists(fs, p1) \/ Exists(fs, p2) \/ Exists(fs, p3)
           e1 == <<Ev("existsSync", p1)>>
                 \o (IF Exists(fs, p1) THEN <<>> ELSE <<Ev("existsSync", p2)>>)
                 \o (IF Exists(fs, p1) \/ Exists(fs, p2) THEN <<>>
                     ELSE <<Ev("existsSync", p3)>>)
           probe == hasCmd("bd")
       IN  IF ~probe.ok
           THEN Finish(S_BEADS, "skipped-missing-tool", "beadsClaude", fs,
                       probe.events, 0)
           ELSE IF beadsInitialized
           THEN Finish(S_BEADS, "already-satisfied", "beadsClaude", fs,
                       probe.events \o e1, 0)
           ELSE \E ok \in BOOLEAN :
                /\ MayFail(ok)
                /\ DRY_RUN => ok
                /\ LET r == run(CMD_BD_INIT, NoOpts, Exec(ok))
                   IN  Finish(S_BEADS, IF r.ok THEN "done" ELSE "failed",
                              "beadsClaude", BdInitEffect(fs, ok),
                              probe.events \o e1 \o r.events, Cost(ok))

\* index.js:288-307
BeadsInit ==
    /\ pc = "beadsInit"
    /\ LET p1 == Join(TARGET_DIR, <<BEADS_DIR>>)
           p2 == Join(TARGET_DIR, <<BEADS_JSONL>>)
           p3 == Join(TARGET_DIR, <<ISSUES_JSONL>>)
           beadsInitialized == Exists(fs, p1) \/ Exists(fs, p2) \/ Exists(fs, p3)
           e1 == <<Ev("existsSync", p1)>>
                 \o (IF Exists(fs, p1) THEN <<>> ELSE <<Ev("existsSync", p2)>>)
                 \o (IF Exists(fs, p1) \/ Exists(fs, p2) THEN <<>>
                     ELSE <<Ev("existsSync", p3)>>)
           probe == hasCmd("bd")
       IN  IF beadsInitialized
           THEN Finish(S_BEADS, "already-satisfied", "beadsClaude", fs, e1, 0)
           ELSE IF ~probe.ok
           THEN Finish(S_BEADS, "skipped-missing-tool", "beadsClaude", fs,
                       e1 \o probe.events, 0)
           ELSE \E ok \in BOOLEAN :
                /\ MayFail(ok)
                /\ DRY_RUN => ok
                /\ LET r == run(CMD_BD_INIT, NoOpts, Exec(ok))
                   IN  Finish(S_BEADS, IF r.ok THEN "done" ELSE "failed",
                              "beadsClaude", BdInitEffect(fs, ok),
                              e1 \o probe.events \o r.events, Cost(ok))

\* index.js:309-319
BeadsClaude ==
    /\ pc = "beadsClaude"
    /\ LET probe == hasCmd("bd")
       IN  IF ~probe.ok
           THEN Finish(S_BEADS_CLAUDE, "skipped-missing-tool", "claudeMem", fs,
                       probe.events, 0)
           ELSE \E ok \in BOOLEAN :
                /\ MayFail(ok)
                /\ DRY_RUN => ok
                /\ LET r == run(CMD_BD_SETUP, NoOpts, Exec(ok))
                   IN  Finish(S_BEADS_CLAUDE, IF r.ok THEN "done" ELSE "failed",
                              "claudeMem", fs, probe.events \o r.events, Cost(ok))

\* index.js:321-345
ClaudeMem ==
    /\ pc = "claudeMem"
    /\ LET probe == hasCmd("claude")
       IN  IF ~probe.ok
           THEN Finish(S_CLAUDE_MEM, "skipped-missing-tool", "skillO2B", fs,
                       probe.events, 0)
           ELSE \E addOk, ok \in BOOLEAN :
                /\ DRY_RUN => (addOk /\ ok)
                /\ faults + Cost(addOk) + Cost(ok) <= MaxFaults
                /\ LET r1 == run(CMD_MARKETPLACE_ADD, SilentOpts, Exec(addOk))
                       r2 == run(CMD_PLUGIN_INSTALL, SilentOpts, Exec(ok))
                   IN  Finish(S_CLAUDE_MEM, IF r2.ok THEN "done" ELSE "failed",
                              "skillO2B", fs,
                              probe.events \o r1.events \o r2.events,
                              Cost(addOk) + Cost(ok))
\* index.js:347-359: no hasCmd before the command; without npx in PATH the
\* shell cannot start it and execSync throws.
SkillOpenspecToBeads ==
    /\ pc = "skillO2B"
    /\ \E ok \in BOOLEAN :
        /\ DRY_RUN => ok
        /\ (~DRY_RUN /\ ToolOf(CMD_SMITHERY) \notin avail) => ~ok
        /\ (ToolOf(CMD_SMITHERY) \in avail) => MayFail(ok)
        /\ LET r == run(CMD_SMITHERY, NoOpts, Exec(ok))
           IN  Finish(S_SKILL_O2B, IF r.ok THEN "done" ELSE "failed",
                      "skillMigrate", fs, r.events,
                      IF ToolOf(CMD_SMITHERY) \in avail THEN Cost(ok) ELSE 0)

skillSrc == <<sep, "pkg", sep, "skills", sep, "migrate-to-openspec">>
CopyFaults == {"none", "mkdir", "cp"}

\* SkillMigrate without the try/catch around the copy: a throw ends the
\* process.
SkillMigrateUncaught ==
    /\ pc = "skillMigrate"
    /\ LET skillsDir == Join(TARGET_DIR, <<DOT_CLAUDE, SKILLS>>)
           e1 == <<Ev("existsSync", skillDst)>>
           e2 == e1 \o <<Ev("existsSync", skillSrc)>>
           e3 == e2 \o <<Ev("mkdirSync", skillsDir)>>
           e4 == e3 \o <<Ev("cpSync", skillDst)>>
           s1 == <<Ev("step", <<S_SKILL_MIGRATE>>)>>
       IN  IF Exists(fs, skillDst)
           THEN Finish(S_SKILL_MIGRATE, "already-satisfied", "gitignore", fs, e1, 0)
           ELSE IF ~skillSrcOk
           THEN Finish(S_SKILL_MIGRATE, "skipped-missing-source", "gitignore", fs,
                       e2, 0)
           ELSE IF DRY_RUN
           THEN Finish(S_SKILL_MIGRATE, "done", "gitignore", fs, e2, 0)
           ELSE \E thrown \in {"none", "mkdir", "cp"} :
                /\ thrown # "none" => faults < MaxFaults
                /\ IF MkdirBlocked(fs, skillsDir) \/ thrown = "mkdir"
                   THEN Fatal(fs, s1 \o e3, "uncaught exception",
                              IF thrown = "none" THEN 0 ELSE 1)
                   ELSE IF thrown = "cp"
                   THEN Fatal(Mkdirp(fs, skillsDir), s1 \o e4,
                              "uncaught exception", 1)
                   ELSE Finish(S_SKILL_MIGRATE, "done", "gitignore",
                               WriteFile(Mkdirp(fs, skillDst),
                                         Join(TARGET_DIR,
                                              <<DOT_CLAUDE, SKILLS, MIGRATE, SKILL_MD>>),
                                         <<"migrate-to-openspec skill">>),
                               e4, 0)

\* index.js:361-394
SkillMigrate ==
    /\ pc = "skillMigrate"
    /\ LET skillsDir == Join(TARGET_DIR, <<DOT_CLAUDE, SKILLS>>)
           e1 == <<Ev("existsSync", skillDst)>>
           e2 == e1 \o <<Ev("existsSync", skillSrc)>>
           e3 == e2 \o <<Ev("mkdirSync", skillsDir)>>
           e4 == e3 \o <<Ev("cpSync", skillDst)>>
       IN  IF Exists(fs, skillDst)
           THEN Finish(S_SKILL_MIGRATE, "already-satisfied", "gitignore", fs, e1, 0)
           ELSE IF ~skillSrcOk
           THEN Finish(S_SKILL_MIGRATE, "skipped-missing-source", "gitignore", fs,
                       e2, 0)
           ELSE IF DRY_RUN
           THEN Finish(S_SKILL_MIGRATE, "done", "gitignore", fs, e2, 0)
           ELSE \E thrown \in CopyFaults :
                /\ thrown # "none" => faults < MaxFaults
                /\ IF MkdirBlocked(fs, skillsDir) \/ thrown = "mkdir"
                   THEN Finish(S_SKILL_MIGRATE, "failed", "gitignore", fs, e3,
                               IF thrown = "none" THEN 0 ELSE 1)
                   ELSE IF thrown = "cp"
                   THEN Finish(S_SKILL_MIGRATE, "failed", "gitignore",
                               Mkdirp(fs, skillsDir), e4, 1)
                   ELSE Finish(S_SKILL_MIGRATE, "done", "gitignore",
                               WriteFile(Mkdirp(fs, skillDst),
                                         Join(TARGET_DIR,
                                              <<DOT_CLAUDE, SKILLS, MIGRATE, SKILL_MD>>),
                                         <<"migrate-to-openspec skill">>),
                               e4, 0)

\* index.js:396-404; an exception thrown by gitignoreAdd is caught
\* nowhere and ends the process
UpdateGitignore ==
    /\ pc = "gitignore"
    /\ LET g1 == gitignoreAdd(fs, BEADS_CACHE, BEADS_CACHE_COMMENT)
           g2 == gitignoreAdd(g1.fs, CLAUDE_MEM, CLAUDE_MEM_COMMENT)
       IN  IF g1.result = "throw"
           THEN Fatal(g1.fs, <<Ev("step", <<S_GITIGNORE>>)>> \o g1.events,
                      "uncaught exception", 0)
           ELSE Finish(S_GITIGNORE,
                       IF g1.result = "present" /\ g2.result = "present"
                       THEN "already-satisfied" ELSE "done",
                       "summary", g2.fs, g1.events \o g2.events, 0)

\* index.js:406-441: the closing console.log, then the script ends
Summary ==
    /\ pc = "summary"
    /\ pc' = "done"
    /\ exitCode' = 0
    /\ summary' = [i \in 1..Len(SummaryItems) |->
                      [item |-> SummaryItems[i], mark |-> "done"]]
    /\ trace' = trace \o <<Ev("summary", <<>>)>>
    /\ UNCHANGED <<TARGET_DIR, fsInit, DRY_RUN, avail, skillSrcOk, rootWritable, fs, fs0,
                   outcome, prev, faults, runs, filePath, wres, call>>

\* index.js:39-44: the script is started again on the same directory
Restart ==
    /\ pc = "done"
    /\ runs < MaxRuns
    /\ runs' = runs + 1
    /\ DRY_RUN' \in BOOLEAN
    /\ prev' = [ran |-> TRUE, dry |-> DRY_RUN, exit |-> exitCode,
                outcome |-> outcome]
    /\ fs0' = fs
    /\ pc' = "validate"
    /\ exitCode' = -1
    /\ trace' = <<>>
    /\ outcome' = NoOutcome
    /\ summary' = <<>>
    /\ UNCHANGED <<TARGET_DIR, fsInit, avail, skillSrcOk, rootWritable, fs, faults,
                   filePath, wres, call>>

\* one step of the running script
ScriptStep ==
    \/ ValidateTarget
    \/ DependencyCheck
    \/ OpenSpecInit
    \/ ConfigYaml
    \/ BeadsInit
    \/ BeadsClaude
    \/ ClaudeMem
    \/ SkillOpenspecToBeads
    \/ SkillMigrate
    \/ UpdateGitignore
    \/ Summary

Next ==
    \/ ScriptStep
    \/ Restart

Spec == Init /\ [][Next]_vars
(***************************************************************************)
(* writeIfMissing on its own: one call with an arbitrary relative path.    *)
(***************************************************************************)
PathChunks == {"/", "\\", ".", "r", "x"}
PathStrings == UNION {[1..n -> PathChunks] : n \in 0..MaxPathLen}
TargetDirs == {ROOT, <<sep>>}
NewContent == <<"new content">>
OldContent == <<"old content">>

WriteRoots(t) ==
    { Mkdirp(EmptyFs, t),
      WriteFile(Mkdirp(EmptyFs, t), Join(t, << <<"x">> >>), OldContent),
      WriteFile(Mkdirp(EmptyFs, Join(t, << <<"x">> >>)),
                Join(t, << <<"x">>, <<"r">> >>), OldContent) }

InitWrite ==
    /\ TARGET_DIR \in TargetDirs
    /\ DRY_RUN \in BOOLEAN
    /\ filePath \in PathStrings
    /\ fs \in WriteRoots(TARGET_DIR)
    /\ fs0 = fs
    /\ fsInit = fs
    /\ avail = Tools
    /\ skillSrcOk = TRUE
    /\ rootWritable = TRUE
    /\ pc = "call"
    /\ exitCode = -1
    /\ trace = <<>>
    /\ outcome = NoOutcome
    /\ prev = NoPrev
    /\ summary = <<>>
    /\ faults = 0
    /\ runs = 1
    /\ wres = "none"
    /\ call = NoCall

\* index.js:94-135, called with filePath
CallWriteIfMissing ==
    /\ pc = "call"
    /\ \E fault \in WriteFaults :
        /\ fault # "none" => (~DRY_RUN /\ faults < MaxFaults)
        /\ LET r == writeIfMissing(fs, filePath, NewContent, fault)
           IN  /\ (fault # "none") => r.faulted
               /\ pc' = "returned"
               /\ fs' = r.fs
               /\ trace' = trace \o r.events
               /\ wres' = r.result
               /\ exitCode' = IF r.result = "exit" THEN 1 ELSE -1
               /\ faults' = faults + (IF r.faulted THEN 1 ELSE 0)
    /\ UNCHANGED <<TARGET_DIR, fsInit, DRY_RUN, avail, skillSrcOk, rootWritable, fs0,
                   outcome, prev, summary, runs, filePath, call>>

NextWrite == CallWriteIfMissing

SpecWrite == InitWrite /\ [][NextWrite]_vars
(***************************************************************************)
(* run on its own: one call with any command of the script, either option  *)
(* set and any behaviour of the command.                                   *)
(***************************************************************************)
RunCalls ==
    [fn : {"run"}, cmd : StepCommands, opts : {NoOpts, SilentOpts},
     env : ExecOutcomes]

InitRun ==
    /\ TARGET_DIR = ROOT
    /\ DRY_RUN \in BOOLEAN
    /\ call \in RunCalls
    /\ fs = EmptyRoot
    /\ fs0 = fs
    /\ fsInit = fs
    /\ avail = Tools
    /\ skillSrcOk = TRUE
    /\ rootWritable = TRUE
    /\ pc = "call"
    /\ exitCode = -1
    /\ trace = <<>>
    /\ outcome = NoOutcome
    /\ prev = NoPrev
    /\ summary = <<>>
    /\ faults = 0
    /\ runs = 1
    /\ filePath = <<>>
    /\ wres = "none"

\* index.js:49-80, called with call.cmd and call.opts
CallRun ==
    /\ pc = "call"
    /\ call.fn = "run"
    /\ LET r == run(call.cmd, call.opts, call.env)
       IN  /\ pc' = "returned"
           /\ wres' = (IF r.ok THEN "true" ELSE "false")
           /\ trace' = trace \o r.events
    /\ UNCHANGED <<TARGET_DIR, fsInit, DRY_RUN, avail, skillSrcOk, rootWritable, fs,
                   fs0, exitCode, outcome, prev, summary, faults, runs, filePath,
                   call>>

NextRun == CallRun

SpecRun == InitRun /\ [][NextRun]_vars
(***************************************************************************)
(* gitignoreAdd on its own: one call of the script on any small .gitignore *)
(* or none.                                                                *)
(***************************************************************************)
TextChunks == {".", "beads-cache", "/", "\n", "# ", "x"}
IgnoreTexts == UNION {[1..n -> TextChunks] : n \in 0..MaxTextLen}
IgnoreCalls ==
    { [fn |-> "gitignoreAdd", entry |-> BEADS_CACHE,
       comment |-> BEADS_CACHE_COMMENT],
      [fn |-> "gitignoreAdd", entry |-> CLAUDE_MEM,
       comment |-> CLAUDE_MEM_COMMENT] }
IgnoreRoots ==
    {EmptyRoot} \cup {WithFile(EmptyRoot, <<GITIGNORE>>, t) : t \in IgnoreTexts}

InitIgnore ==
    /\ TARGET_DIR = ROOT
    /\ DRY_RUN \in BOOLEAN
    /\ call \in IgnoreCalls
    /\ fs \in IgnoreRoots
    /\ fs0 = fs
    /\ fsInit = fs
    /\ avail = Tools
    /\ skillSrcOk = TRUE
    /\ rootWritable = TRUE
    /\ pc = "call"
    /\ exitCode = -1
    /\ trace = <<>>
    /\ outcome = NoOutcome
    /\ prev = NoPrev
    /\ summary = <<>>
    /\ faults = 0
    /\ runs = 1
    /\ filePath = <<>>
    /\ wres = "none"

\* index.js:138-151, called with call.entry and call.comment
CallGitignoreAdd ==
    /\ pc = "call"
    /\ call.fn = "gitignoreAdd"
    /\ LET r == gitignoreAdd(fs, call.entry, call.comment)
       IN  /\ pc' = "returned"
           /\ fs' = r.fs
           /\ wres' = r.result
           /\ trace' = trace \o r.events
    /\ UNCHANGED <<TARGET_DIR, fsInit, DRY_RUN, avail, skillSrcOk, rootWritable, fs0,
                   exitCode, outcome, prev, summary, faults, runs, filePath,
                   call>>

NextIgnore == CallGitignoreAdd

SpecIgnore == InitIgnore /\ [][NextIgnore]_vars
(***************************************************************************)
(* Properties.                                                             *)
(***************************************************************************)
Executed(c) == \E i \in 1..Len(trace) : trace[i] = Ev("execSync", <<c>>)
ValidRoot(f) == Exists(f, TARGET_DIR) /\ f[TARGET_DIR].kind = "dir" /\ rootWritable
LiveAfterLive ==
    /\ prev.ran /\ ~prev.dry /\ prev.exit = 0
    /\ ~DRY_RUN /\ pc = "done" /\ exitCode = 0

\* C1: a run in simulation mode on a valid root makes no file-system write
\* (create, truncate, append, delete) at any point and executes no external
\* command.
C1_SimulationWritesAndExecutesNothing ==
    (DRY_RUN /\ ValidRoot(fs0)) =>
        \A i \in 1..Len(trace) : trace[i].op \notin MutatingOps \cup {"execSync"}

\* C2: in a live run that follows a completed live run, every step the
\* first run completed is already-satisfied or skipped-missing-tool, and
\* none of its commands is executed again.  (The dependency check, which
\* only probes, is left out of the steps compared.)
C2_SecondRunRepeatsNothing ==
    LiveAfterLive =>
        \A s \in StepSet \ {S_DEPS} :
            (s \in DOMAIN prev.outcome /\ prev.outcome[s] = "done") =>
                outcome[s] \in {"already-satisfied", "skipped-missing-tool"}
\* the path a writeIfMissing call resolves filePath to
Resolved == Resolve(TARGET_DIR, NormalizeSeparators(filePath))

\* p lies in the directory tree of root (root itself included), segment
\* by segment
InTree(root, p) ==
    LET rs == Segments(root)
        ps == Segments(p)
    IN  Len(rs) <= Len(ps) /\ SubSeq(ps, 1, Len(rs)) = rs

\* the resolved path is neither the root nor the root, a separator, and more
Refused ==
    /\ Resolved # TARGET_DIR
    /\ ~(Len(Resolved) > Len(TARGET_DIR)
         /\ SubSeq(Resolved, 1, Len(TARGET_DIR) + 1) = TARGET_DIR \o <<sep>>)

\* C3: a writeIfMissing call creates nothing outside the target root, and
\* when its path resolves to neither the root nor a path with the root and
\* a separator as prefix, the call ends the process with exit code 1 before
\* any existence check, directory creation or write, in either mode.
C3_WriteIfMissingStaysInRoot ==
    pc = "returned" =>
        /\ \A p \in DOMAIN fs \ DOMAIN fs0 : InTree(TARGET_DIR, p)
        /\ Refused => (exitCode = 1 /\ wres = "exit" /\ trace = <<>> /\ fs = fs0)

\* C3 witness: a call whose path resolves to a sibling directory whose name
\* starts with the root's name has returned, in live mode.
C3_Witness ==
    /\ pc = "returned" /\ ~DRY_RUN /\ exitCode = 1
    /\ TARGET_DIR = ROOT
    /\ Resolved = ROOT \o <<"x">>

\* C4: when something exists at the resolved path, writeIfMissing reports
\* skipped-exists and changes nothing: no content, no directory, in either
\* mode.
C4_ExistingTargetUntouched ==
    (pc = "returned" /\ ~Refused /\ Exists(fs0, Resolved)) =>
        /\ wres = "skipped-exists"
        /\ fs = fs0
        /\ exitCode = -1
        /\ \A i \in 1..Len(trace) : trace[i].op \notin MutatingOps

\* C4 witness: a live call on an existing file below the root has returned.
C4_Witness ==
    /\ pc = "returned" /\ ~DRY_RUN
    /\ Resolved # TARGET_DIR
    /\ Exists(fs0, Resolved) /\ fs0[Resolved].kind = "file"
    /\ wres = "skipped-exists"
IgnoreEntries == {BEADS_CACHE, CLAUDE_MEM}
GitignorePath == Join(TARGET_DIR, <<GITIGNORE>>)
TextOf(f, p) == IF Exists(f, p) THEN f[p].content ELSE <<>>

\* C5: starting from a root with no .gitignore, each configured pattern
\* occurs at most once in .gitignore at any time, and exactly once as soon
\* as a live run has finished its .gitignore step; a .gitignore step that
\* finds both patterns present leaves the file as it was.
C5_IgnoreEntriesOnce ==
    /\ ~Exists(fsInit, GitignorePath) =>
          \A e \in IgnoreEntries :
              /\ Occurrences(TextOf(fs, GitignorePath), e) <= 1
              /\ (~DRY_RUN /\ S_GITIGNORE \in DOMAIN outcome) =>
                     Occurrences(TextOf(fs, GitignorePath), e) = 1
    /\ (S_GITIGNORE \in DOMAIN outcome
        /\ \A e \in IgnoreEntries : Includes(TextOf(fs0, GitignorePath), e)) =>
          /\ Exists(fs0, GitignorePath)
          /\ fs[GitignorePath] = fs0[GitignorePath]

\* C5 witness: a second live run has finished its .gitignore step on a root
\* that had no .gitignore before the first live run.
C5_Witness ==
    /\ ~Exists(fsInit, GitignorePath)
    /\ prev.ran /\ ~prev.dry /\ prev.exit = 0 /\ ~DRY_RUN
    /\ S_GITIGNORE \in DOMAIN outcome
    /\ outcome[S_GITIGNORE] = "already-satisfied"

PcOrder == <<"validate", "deps", "openspecInit", "configYaml", "beadsInit",
             "beadsClaude", "claudeMem", "skillO2B", "skillMigrate",
             "gitignore", "summary", "done">>
Last(t) == t[Len(t)]

\* C6: whatever a step's outcome, the script goes on to the next step in
\* order with the step's outcome recorded and without exiting; the only
\* exits before the summary are the fatal I/O error of writeIfMissing in
\* the config.yaml step and the exception of reading a .gitignore that is
\* a directory; the summary is reached with every step recorded and ends
\* the process with exit code 0.
C6_FailureNeverAborts ==
    [][\A i \in 2..11 :
            pc = PcOrder[i] =>
                IF i = 11
                THEN /\ pc' = "done" /\ exitCode' = 0
                     /\ StepSet \subseteq DOMAIN outcome
                ELSE \/ /\ pc' = PcOrder[i + 1]
                        /\ exitCode' = -1
                        /\ Steps[i - 1] \in DOMAIN outcome'
                        /\ \A j \in 1..(i - 1) : Steps[j] \in DOMAIN outcome'
                     \/ /\ PcOrder[i] = "configYaml"
                        /\ pc' = "done" /\ exitCode' = 1
                        /\ Last(trace') = Ev("exit", <<"writeIfMissing">>)
                        /\ trace'[Len(trace') - 1].op \in {"mkdirSync", "writeFileSync"}
                     \/ /\ PcOrder[i] = "gitignore"
                        /\ pc' = "done" /\ exitCode' = 1
                        /\ Last(trace') = Ev("exit", <<"uncaught exception">>)
                        /\ trace'[Len(trace') - 1].op = "readFileSync"
                        /\ fs[GitignorePath].kind = "dir"
         ]_vars

\* C6 witness: a run in which one step failed and another was skipped for a
\* missing tool has reached the end with exit code 0 and all steps recorded.
C6_Witness ==
    /\ pc = "done" /\ exitCode = 0
    /\ StepSet \subseteq DOMAIN outcome
    /\ outcome[S_INIT] = "skipped-missing-tool"
    /\ outcome[S_SKILL_MIGRATE] = "failed"

\* the steps a summary line speaks for
StepsOfItem(item) ==
    IF item = "OpenSpec" THEN {S_INIT}
    ELSE IF item = "openspec/config.yaml" THEN {S_CONFIG}
    ELSE IF item = "Beads" THEN {S_BEADS, S_BEADS_CLAUDE}
    ELSE IF item = "claude-mem" THEN {S_CLAUDE_MEM}
    ELSE IF item = "openspec-to-beads" THEN {S_SKILL_O2B}
    ELSE {S_SKILL_MIGRATE}

\* C7: in the summary of a finished run, a step that failed or was skipped
\* is listed with that disposition: never as done, never left out.
C7_SummaryTellsDispositions ==
    (pc = "done" /\ exitCode = 0) =>
        \A s \in StepSet :
            outcome[s] \in {"failed", "skipped-missing-tool"} =>
                \E i \in 1..Len(summary) :
                    /\ s \in StepsOfItem(summary[i].item)
                    /\ summary[i].mark = outcome[s]

\* C8: when the target is missing, not a directory or not writable, the
\* process has ended with exit code 1 after exactly the checks up to the
\* failing one (existence, then directory, then the probe write), with no
\* step begun, nothing probed, executed or written.
C8_InvalidTargetStopsBeforeSteps ==
    (pc # "validate" /\ ~ValidRoot(fs0)) =>
        /\ pc = "done" /\ exitCode = 1
        /\ outcome = NoOutcome /\ fs = fs0
        /\ trace =
             IF ~Exists(fs0, TARGET_DIR)
             THEN <<Ev("existsSync", TARGET_DIR), Ev("exit", <<"Directory not found">>)>>
             ELSE IF fs0[TARGET_DIR].kind # "dir"
             THEN <<Ev("existsSync", TARGET_DIR), Ev("statSync", TARGET_DIR),
                    Ev("exit", <<"Target path is not a directory">>)>>
             ELSE <<Ev("existsSync", TARGET_DIR), Ev("statSync", TARGET_DIR),
                    Ev("writeFileSync", testFile),
                    Ev("exit", <<"No write permission for directory">>)>>

\* C8 witness: a run on an existing directory without write permission has
\* ended.
C8_Witness ==
    /\ pc = "done" /\ exitCode = 1
    /\ Exists(fs0, TARGET_DIR) /\ fs0[TARGET_DIR].kind = "dir" /\ ~rootWritable

\* C9: a command of a step is executed only when its tool is available, and
\* a step whose tool is missing is recorded as skipped-missing-tool.
C9_MissingToolSkipsCommand ==
    /\ \A c \in StepCommands : Executed(c) => ToolOf(c) \in avail
    /\ (S_SKILL_O2B \in DOMAIN outcome /\ ToolOf(CMD_SMITHERY) \notin avail) =>
          outcome[S_SKILL_O2B] = "skipped-missing-tool"

\* C10: in a live run that follows a completed live run, every piece of
\* work that failed in the earlier run is attempted again.
C10_FailedWorkIsRetried ==
    LiveAfterLive =>
        \A w \in DOMAIN prev.outcome :
            prev.outcome[w] = "failed" =>
                (w \in DOMAIN outcome /\ outcome[w] \in {"done", "failed"})

\* the lines run logged with log.error
ErrorLines == SelectSeq(trace, LAMBDA ev : ev.op = "log.error")
\* the command of a direct call of run did not exit with status 0
CommandFailed == call.env.kind # "exit" \/ call.env.status # 0

\* C11: a live call of run whose command exits non-zero or cannot be
\* spawned returns false and gives the diagnostic with it: the trimmed
\* error text and, when the command exited, its exit code; with silent
\* as without.
C11_RunReturnsFailureWithDiagnostic ==
    (pc = "returned" /\ call.fn = "run" /\ ~DRY_RUN /\ CommandFailed) =>
        /\ wres = "false"
        /\ exitCode = -1
        /\ \E i \in 1..Len(ErrorLines) :
              /\ Head(ErrorLines[i].arg) = "Error: "
              /\ Tail(ErrorLines[i].arg) # <<>>
              /\ Trim(Tail(ErrorLines[i].arg)) = Tail(ErrorLines[i].arg)
        /\ (call.env.kind = "exit") =>
              \E i \in 1..Len(ErrorLines) :
                  ErrorLines[i].arg = <<"Exit code: ", ToString(call.env.status)>>

\* the paths whose entry differs between two file systems
Changed(f, g) ==
    {p \in DOMAIN f \cup DOMAIN g :
        ~(p \in DOMAIN f /\ p \in DOMAIN g /\ f[p] = g[p])}
\* p lies below the directory whose segments are rs
Below(rs, p) ==
    LET ps == Segments(p)
    IN  Len(rs) < Len(ps) /\ SubSeq(ps, 1, Len(rs)) = rs
\* p lies below the target root
UnderRoot(p) == Below(Segments(TARGET_DIR), p)
\* the paths the script has called a creating, writing, appending, copying
\* or deleting file operation on
MutatedPaths ==
    LET sel == SelectSeq(trace, LAMBDA ev : ev.op \in MutatingOps)
    IN  {sel[i].arg : i \in 1..Len(sel)}

\* C12: every path on which the script calls a creating, writing,
\* appending, copying or deleting file operation lies below the target
\* root, and so does every path whose entry differs from the file system
\* the process started with.
C12_FileOperationsStayUnderRoot ==
    LET rs == Segments(TARGET_DIR)
    IN  \A p \in MutatedPaths \cup Changed(fs0, fs) : Below(rs, p)

\* C12 witness: a live run has ended after the probe, the removal of the
\* default config.yaml, the config.yaml write, the skill copy and the
\* .gitignore edit.
C12_Witness ==
    /\ pc = "done" /\ exitCode = 0 /\ ~DRY_RUN
    /\ \E i \in 1..Len(trace) : trace[i] = Ev("unlinkSync", testFile)
    /\ \E i \in 1..Len(trace) :
           trace[i] = Ev("unlinkSync", Join(TARGET_DIR, <<OPENSPEC, CONFIG_YAML>>))
    /\ \E i \in 1..Len(trace) :
           trace[i] = Ev("writeFileSync", Join(TARGET_DIR, <<OPENSPEC, CONFIG_YAML>>))
    /\ \E i \in 1..Len(trace) : trace[i] = Ev("cpSync", skillDst)
    /\ \E i \in 1..Len(trace) : trace[i] = Ev("appendFileSync", GitignorePath)

\* the step at pc ends as already-satisfied: the script goes on with next,
\* the file system is as it was, and the step made existence tests only
Untouched(step, next) ==
    /\ pc' = next /\ exitCode' = -1
    /\ fs' = fs
    /\ outcome' = Put(outcome, step, "already-satisfied")
    /\ Len(trace') > Len(trace)
    /\ SubSeq(trace', 1, Len(trace) + 1) = Append(trace, Ev("step", <<step>>))
    /\ \A i \in (Len(trace) + 2)..Len(trace') : trace'[i].op = "existsSync"
BeadsStore ==
    {Join(TARGET_DIR, <<BEADS_DIR>>), Join(TARGET_DIR, <<BEADS_JSONL>>),
     Join(TARGET_DIR, <<ISSUES_JSONL>>)}

\* C13: a step that starts with its artifact present (openspec/ for
\* OpenSpec init; openspec/config.yaml for the config.yaml step; .beads,
\* beads.jsonl or issues.jsonl for Beads init; the skill directory for
\* migrate-to-openspec) executes nothing, not even the tool probe, changes
\* no file, is recorded as already-satisfied, and the script goes on with
\* the next step.
C13_SatisfiedStepHasNoEffect ==
    [][/\ (pc = "openspecInit" /\ Exists(fs, Join(TARGET_DIR, <<OPENSPEC>>)))
            => Untouched(S_INIT, "configYaml")
       /\ (pc = "configYaml"
           /\ Exists(fs, Join(TARGET_DIR, <<OPENSPEC, CONFIG_YAML>>)))
            => Untouched(S_CONFIG, "beadsInit")
       /\ (pc = "beadsInit" /\ \E p \in BeadsStore : Exists(fs, p))
            => Untouched(S_BEADS, "beadsClaude")
       /\ (pc = "skillMigrate" /\ Exists(fs, skillDst))
            => Untouched(S_SKILL_MIGRATE, "gitignore")
      ]_vars

\* C13 witness: a live run on a machine without bd, following a live run,
\* has found all four artifacts present.
C13_Witness ==
    /\ prev.ran /\ ~prev.dry /\ ~DRY_RUN /\ pc = "done" /\ exitCode = 0
    /\ "bd" \notin avail
    /\ \A s \in {S_INIT, S_CONFIG, S_BEADS, S_SKILL_MIGRATE} :
           outcome[s] = "already-satisfied"

\* a direct writeIfMissing call has returned from an accepted path with
\* nothing at it
NothingAtTarget == pc = "returned" /\ ~Refused /\ ~Exists(fs0, Resolved)

\* C14: a live writeIfMissing call on an accepted path with nothing at it
\* either returns with every missing parent directory made (mkdirSync
\* before writeFileSync), the file holding exactly the given content and
\* nothing else changed, or ends the process with exit code 1 at the
\* mkdirSync or writeFileSync that failed, leaving no file at the path; it
\* exits only when one of the two failed.
C14_LiveWriteCreatesOrExits ==
    (NothingAtTarget /\ ~DRY_RUN) =>
        LET parents == SelfAndAncestors(Dirname(Resolved)) IN
        /\ \/ /\ wres = "created" /\ exitCode = -1
              /\ trace = <<Ev("existsSync", Resolved),
                           Ev("mkdirSync", Dirname(Resolved)),
                           Ev("writeFileSync", Resolved)>>
              /\ DOMAIN fs = DOMAIN fs0 \cup parents \cup {Resolved}
              /\ fs[Resolved] = File(NewContent)
              /\ \A a \in parents : fs[a].kind = "dir"
              /\ \A p \in DOMAIN fs0 : fs[p] = fs0[p]
           \/ /\ wres = "exit" /\ exitCode = 1
              /\ Last(trace).op \in {"mkdirSync", "writeFileSync"}
              /\ ~Exists(fs, Resolved)
              /\ \A p \in DOMAIN fs0 : fs[p] = fs0[p]
        /\ (faults = 0 /\ ~MkdirBlocked(fs0, Dirname(Resolved))) => wres = "created"

\* C14 witness: a live call has created a file together with a parent
\* directory that did not exist.
C14_Witness ==
    /\ NothingAtTarget /\ ~DRY_RUN /\ wres = "created"
    /\ ~Exists(fs0, Dirname(Resolved))
    /\ fs[Resolved] = File(NewContent)

\* C15: a simulated writeIfMissing call on an accepted path with nothing at
\* it reports would-create after the existence test and leaves the file
\* system as it was; on an existing target it reports skipped-exists, and
\* on a refused path it ends the process with exit code 1, as a live call
\* does.
C15_SimulatedWriteTouchesNothing ==
    (pc = "returned" /\ DRY_RUN) =>
        /\ fs = fs0
        /\ \A i \in 1..Len(trace) : trace[i].op \notin MutatingOps
        /\ wres = IF Refused THEN "exit"
                  ELSE IF Exists(fs0, Resolved) THEN "skipped-exists"
                  ELSE "would-create"
        /\ exitCode = IF Refused THEN 1 ELSE -1
        /\ trace = IF Refused THEN <<>> ELSE <<Ev("existsSync", Resolved)>>

\* C15 witness: a simulated call on a path two levels below the root, with
\* neither the file nor its directory there, has returned.
C15_Witness ==
    /\ NothingAtTarget /\ DRY_RUN /\ wres = "would-create"
    /\ ~Exists(fs0, Dirname(Resolved))

\* what the step taken from this state added to the trace, after its title
StepEvents == SubSeq(trace', Len(trace) + 2, Len(trace'))
WouldAdd(entry) ==
    Ev("log.info", <<"[DRY RUN] Would add to .gitignore: ">> \o entry)

\* C16: when the .gitignore step starts with no .gitignore, a live run
\* writes it empty first, then reads it and appends (for both entries, the
\* second finding the file there); a simulated run makes existence tests
\* only, takes the content as empty, reports both entries as would-add and
\* changes nothing; no step of a simulated run started without .gitignore
\* brings one about.
C16_MissingIgnoreFile ==
    [][/\ (pc = "gitignore" /\ ~Exists(fs, GitignorePath)) =>
            IF DRY_RUN
            THEN /\ fs' = fs
                 /\ StepEvents =
                      <<Ev("existsSync", GitignorePath),
                        Ev("existsSync", GitignorePath), WouldAdd(BEADS_CACHE),
                        Ev("existsSync", GitignorePath),
                        Ev("existsSync", GitignorePath), WouldAdd(CLAUDE_MEM)>>
            ELSE /\ SelectSeq(StepEvents, LAMBDA ev : ev.op # "log.info") =
                      <<Ev("existsSync", GitignorePath),
                        Ev("writeFileSync", GitignorePath),
                        Ev("existsSync", GitignorePath),
                        Ev("readFileSync", GitignorePath),
                        Ev("appendFileSync", GitignorePath),
                        Ev("existsSync", GitignorePath),
                        Ev("existsSync", GitignorePath),
                        Ev("readFileSync", GitignorePath),
                        Ev("appendFileSync", GitignorePath)>>
                 /\ fs' = WriteFile(fs, GitignorePath,
                                    IgnoreBlock(BEADS_CACHE, BEADS_CACHE_COMMENT)
                                    \o IgnoreBlock(CLAUDE_MEM, CLAUDE_MEM_COMMENT))
       /\ (DRY_RUN /\ pc # "done" /\ ~Exists(fs, GitignorePath)) =>
            ~Exists(fs', GitignorePath)
      ]_vars

\* C16 witness: after a simulated run on a root without .gitignore, a live
\* run that still found none has finished its .gitignore step.
C16_Witness ==
    /\ prev.ran /\ prev.dry /\ prev.exit = 0
    /\ ~DRY_RUN /\ ~Exists(fs0, GitignorePath)
    /\ S_GITIGNORE \in DOMAIN outcome
    /\ Exists(fs, GitignorePath)

RECURSIVE LinesOf(_, _, _)
\* text.split("\n")
LinesOf(text, cur, acc) ==
    IF text = <<>> THEN Append(acc, cur)
    ELSE IF Head(text) = "\n" THEN LinesOf(Tail(text), <<>>, Append(acc, cur))
    ELSE LinesOf(Tail(text), Append(cur, Head(text)), acc)
Lines(text) == LinesOf(text, <<>>, <<>>)
\* the lines of a text, without the empty piece after a final newline
FullLines(text) ==
    LET ls == Lines(text)
    IN  IF Last(ls) = <<>> THEN SubSeq(ls, 1, Len(ls) - 1) ELSE ls

\* C17: after a gitignoreAdd call the old content of .gitignore is a prefix
\* of the new content and every old line is still the line it was; a live
\* call whose entry is not contained in the old content leaves exactly the
\* old content, a newline, "# " and the comment, a newline, the entry, a
\* newline; any other call leaves the content as it was.
C17_IgnoreFileOnlyGrows ==
    (pc = "returned" /\ call.fn = "gitignoreAdd") =>
        LET old == TextOf(fs0, GitignorePath)
            new == TextOf(fs, GitignorePath)
        IN  /\ StartsWith(new, old)
            /\ Exists(fs0, GitignorePath) => Exists(fs, GitignorePath)
            /\ \A i \in 1..Len(FullLines(old)) :
                   i <= Len(FullLines(new)) /\ FullLines(new)[i] = FullLines(old)[i]
            /\ IF ~DRY_RUN /\ ~Includes(old, call.entry)
               THEN /\ wres = "added"
                    /\ new = old \o <<"\n">> \o <<"# ">> \o call.comment \o <<"\n">>
                                 \o call.entry \o <<"\n">>
                    /\ SubSeq(FullLines(new), Len(FullLines(new)) - 1,
                              Len(FullLines(new)))
                         = << <<"# ">> \o call.comment, call.entry >>
               ELSE new = old
            /\ \A p \in Changed(fs0, fs) : p = GitignorePath

\* C17 witness: a live call has appended to a .gitignore whose content did
\* not end with a newline.
C17_Witness ==
    /\ pc = "returned" /\ call.fn = "gitignoreAdd" /\ ~DRY_RUN
    /\ wres = "added"
    /\ Len(TextOf(fs0, GitignorePath)) > 0
    /\ Last(TextOf(fs0, GitignorePath)) # "\n"

\* the step titles announced so far, in the order announced
Titles(t) ==
    LET sel == SelectSeq(t, LAMBDA ev : ev.op = "step")
    IN  [i \in 1..Len(sel) |-> sel[i].arg[1]]
\* the step a command line belongs to
StepOfCommand(c) ==
    IF ToolOf(c) = "openspec" THEN S_INIT
    ELSE IF c = CMD_BD_INIT THEN S_BEADS
    ELSE IF c = CMD_BD_SETUP THEN S_BEADS_CLAUDE
    ELSE IF ToolOf(c) = "claude" THEN S_CLAUDE_MEM
    ELSE S_SKILL_O2B
\* the event belongs to the step `step`: a command to its own step, a
\* write or mkdir below openspec/ to the config.yaml step, the copy to the
\* migrate-to-openspec step, an append to the .gitignore step
InItsStep(ev, step) ==
    /\ (ev.op = "execSync" /\ Len(ev.arg) = 1) => step = StepOfCommand(ev.arg[1])
    /\ (ev.op \in {"writeFileSync", "mkdirSync"}
        /\ StartsWith(ev.arg, Join(TARGET_DIR, <<OPENSPEC>>))) => step = S_CONFIG
    /\ ev.op = "cpSync" => step = S_SKILL_MIGRATE
    /\ ev.op = "appendFileSync" => step = S_GITIGNORE
    /\ ev.op = "summary" => step = S_GITIGNORE
RECURSIVE OrderedFrom(_, _)
\* from the i-th event on, with k steps announced before it: each title
\* announced is the next of the fixed order and each event belongs to the
\* step announced last
OrderedFrom(i, k) ==
    IF i > Len(trace) THEN TRUE
    ELSE IF trace[i].op = "step"
    THEN /\ k < Len(Steps) /\ trace[i].arg[1] = Steps[k + 1]
         /\ OrderedFrom(i + 1, k + 1)
    ELSE /\ InItsStep(trace[i], IF k = 0 THEN "none" ELSE Steps[k])
         /\ OrderedFrom(i + 1, k)
\* the trace is in order, all but the last announced step have their
\* outcome, and the summary is the last event, with every outcome there
StepsInOrder ==
    LET n == Len(Titles(trace)) IN
    /\ OrderedFrom(1, 0)
    /\ \A j \in 1..(n - 1) : Steps[j] \in DOMAIN outcome
    /\ DOMAIN outcome \cap StepSet \subseteq {Steps[j] : j \in 1..n}
    /\ \A i \in 1..Len(trace) :
          trace[i].op = "summary" =>
              (i = Len(trace) /\ StepSet \subseteq DOMAIN outcome)
\* a step is announced only when every step before it has its outcome
AnnouncedAfterOutcome ==
    LET before == Titles(trace)
        after == Titles(trace')
    IN  Len(after) > Len(before) =>
            /\ after = Append(before, Steps[Len(after)])
            /\ \A j \in 1..Len(before) : Steps[j] \in DOMAIN outcome

\* C18: the steps are announced one at a time in the fixed order, each
\* only when the steps before it have their outcome; every command, the
\* config.yaml write, the skill copy and the .gitignore append happen
\* during their own step, so the config.yaml write comes after the OpenSpec
\* init step; the summary comes last, after the .gitignore step's outcome.
C18_StepsRunInFixedOrder ==
    []StepsInOrder /\ [][AnnouncedAfterOutcome]_vars

\* C18 witness: a live run that initialised OpenSpec, wrote config.yaml and
\* appended to .gitignore has printed its summary.
C18_Witness ==
    /\ pc = "done" /\ exitCode = 0 /\ ~DRY_RUN /\ summary # <<>>
    /\ outcome[S_INIT] = "done" /\ outcome[S_CONFIG] = "done"
    /\ outcome[S_GITIGNORE] = "done"

\* what a simulated run records for a command-backed step: the success
\* branch unless the step's artifact is there or its probe fails
Simulated(step, satisfied, tool) ==
    step \in DOMAIN outcome =>
        outcome[step] = IF satisfied THEN "already-satisfied"
                        ELSE IF tool \in avail \/ tool = "none" THEN "done"
                        ELSE "skipped-missing-tool"

\* C19: a simulated run executes no step command and every command-backed
\* step takes its success branch unless its artifact is already there or
\* its tool probe fails; a simulated run on a valid root ends with the
\* summary and exit code 0.
C19_SimulatedRunSucceeds ==
    DRY_RUN =>
        /\ \A c \in StepCommands : ~Executed(c)
        /\ Simulated(S_INIT, Exists(fs0, Join(TARGET_DIR, <<OPENSPEC>>)), "openspec")
        /\ W_EXPANDED \in DOMAIN outcome => outcome[W_EXPANDED] = "done"
        /\ Simulated(S_BEADS, \E p \in BeadsStore : Exists(fs0, p), "bd")
        /\ Simulated(S_BEADS_CLAUDE, FALSE, "bd")
        /\ Simulated(S_CLAUDE_MEM, FALSE, "claude")
        /\ Simulated(S_SKILL_O2B, FALSE, "none")
        /\ (ValidRoot(fs0) /\ pc = "done") => (exitCode = 0 /\ summary # <<>>)

\* run returned v ("true" or "false") for the command c
Returned(c, v) == \E i \in 1..Len(trace) : trace[i] = Ev("return", <<c, v>>)
\* the executions and returns of the three openspec commands, in the order
\* they happened
OpenspecCalls ==
    SelectSeq(trace, LAMBDA ev :
        /\ ev.op \in {"execSync", "return"}
        /\ ev.arg[1] \in {CMD_OPENSPEC_INIT, CMD_OPENSPEC_PROFILE,
                          CMD_OPENSPEC_UPDATE})
Call(c, v) ==
    IF DRY_RUN THEN <<Ev("return", <<c, v>>)>>
    ELSE <<Ev("execSync", <<c>>), Ev("return", <<c, v>>)>>

\* C20: `openspec config profile expanded` is executed only after `openspec
\* init` returned success, and always then; `openspec update` is executed
\* only after the profile command returned success, and always then; when
\* one of the two fails the init step still ends as done, with the upgrade
\* marked failed, no exit, and the config.yaml step next.
C20_UpgradeOnlyWarns ==
    LET calls == OpenspecCalls
        init(v) == Call(CMD_OPENSPEC_INIT, v)
        profile(v) == Call(CMD_OPENSPEC_PROFILE, v)
        update(v) == Call(CMD_OPENSPEC_UPDATE, v)
        warned == /\ outcome[S_INIT] = "done" /\ outcome[W_EXPANDED] = "failed"
                  /\ \/ pc = "configYaml" /\ exitCode = -1
                     \/ \E i \in 1..Len(trace) : trace[i] = Ev("step", <<S_CONFIG>>)
    IN  \/ calls = <<>>
        \/ /\ calls = init("false")
           /\ outcome[S_INIT] = "failed" /\ W_EXPANDED \notin DOMAIN outcome
        \/ calls = init("true") \o profile("false") /\ warned
        \/ calls = init("true") \o profile("true") \o update("false") /\ warned
        \/ /\ calls = init("true") \o profile("true") \o update("true")
           /\ outcome[S_INIT] = "done" /\ outcome[W_EXPANDED] = "done"

\* C20 witness: a live run in which the profile command succeeded and
\* `openspec update` failed has written config.yaml and ended with exit
\* code 0.
C20_Witness ==
    /\ ~DRY_RUN /\ pc = "done" /\ exitCode = 0
    /\ Returned(CMD_OPENSPEC_PROFILE, "true")
    /\ Returned(CMD_OPENSPEC_UPDATE, "false")
    /\ outcome[S_CONFIG] = "done"

\* C21: in a live run that started without openspec/ and in which `openspec
\* init` succeeded, no openspec/config.yaml is left when the config.yaml
\* step begins, and once that step has finished openspec/config.yaml is a
\* file holding the script's own template.
C21_TemplateReplacesDefault ==
    LET dir == Join(TARGET_DIR, <<OPENSPEC>>)
        cfg == Join(TARGET_DIR, <<OPENSPEC, CONFIG_YAML>>)
    IN  ( /\ ~DRY_RUN
          /\ S_INIT \in DOMAIN outcome
          /\ outcome[S_INIT] = "done"
          /\ ~Exists(fs0, dir) )
        => /\ pc = "configYaml" => ~Exists(fs, cfg)
           /\ S_CONFIG \in DOMAIN outcome
                => /\ outcome[S_CONFIG] = "done"
                   /\ Exists(fs, cfg)
                   /\ fs[cfg] = File(ConfigTemplate)

\* C21 witness: a live run started without openspec/, the tool's default
\* config.yaml was deleted in the init step, and the config.yaml step has
\* written the template.
C21_Witness ==
    LET cfg == Join(TARGET_DIR, <<OPENSPEC, CONFIG_YAML>>)
    IN  /\ ~DRY_RUN
        /\ ~Exists(fs0, Join(TARGET_DIR, <<OPENSPEC>>))
        /\ \E i \in 1..Len(trace) : trace[i] = Ev("unlinkSync", cfg)
        /\ S_CONFIG \in DOMAIN outcome
        /\ Exists(fs, cfg)
        /\ fs[cfg] = File(ConfigTemplate)

\* the entry is a line of its own in the text
IsLineOf(entry, text) ==
    LET ls == FullLines(text) IN \E i \in 1..Len(ls) : ls[i] = entry

\* C22: after a live gitignoreAdd call has returned, whatever .gitignore
\* held before, the entry is a whole line of .gitignore.
C22_EntryIsWholeLine ==
    (pc = "returned" /\ call.fn = "gitignoreAdd" /\ ~DRY_RUN)
        => /\ Exists(fs, GitignorePath)
           /\ IsLineOf(call.entry, TextOf(fs, GitignorePath))

\* the file operations of the script that write, delete or copy to a path
ReplacingOps == {"writeFileSync", "unlinkSync", "cpSync"}

\* C23: at every point of a run, in either mode, every file that was below
\* the root when the run started is still there with the content it had,
\* except that in live mode .gitignore may hold its old content followed by
\* appended text; the script writes, deletes and copies only at paths
\* where nothing was when the run started, and appends only to .gitignore
\* and only in live mode.
C23_ExistingFilesKept ==
    LET ops == SelectSeq(trace, LAMBDA ev :
                   ev.op \in ReplacingOps \cup {"appendFileSync"})
    IN  /\ \A p \in DOMAIN fs0 :
              fs0[p].kind = "file"
                => /\ Exists(fs, p)
                   /\ \/ fs[p] = fs0[p]
                      \/ /\ p = GitignorePath /\ ~DRY_RUN
                         /\ fs[p].kind = "file"
                         /\ StartsWith(fs[p].content, fs0[p].content)
        /\ \A i \in 1..Len(ops) :
              IF ops[i].op = "appendFileSync"
              THEN ops[i].arg = GitignorePath /\ ~DRY_RUN
              ELSE ~Exists(fs0, ops[i].arg)

\* C23 witness: a complete live run on a root that held a .gitignore file:
\* the probe file was written and deleted, the tool's default config.yaml
\* was deleted, the template was written, the skill was copied, .gitignore
\* was appended to and still begins with its old content.
C23_Witness ==
    /\ ~DRY_RUN /\ pc = "done" /\ exitCode = 0
    /\ Exists(fs0, GitignorePath) /\ fs0[GitignorePath].kind = "file"
    /\ fs[GitignorePath] # fs0[GitignorePath]
    /\ StartsWith(fs[GitignorePath].content, fs0[GitignorePath].content)
    /\ \E i \in 1..Len(trace) : trace[i] = Ev("unlinkSync", testFile)
    /\ \E i \in 1..Len(trace) :
           trace[i] = Ev("unlinkSync", Join(TARGET_DIR, <<OPENSPEC, CONFIG_YAML>>))
    /\ outcome[S_CONFIG] = "done"
    /\ \E i \in 1..Len(trace) : trace[i] = Ev("cpSync", skillDst)
====
